---------------------------- MODULE Spec2Model ----------------------------
(***************************************************************************)
(* Model of the Text-Rag-Pipeline repository:                              *)
(*   - clean_text (src/legacy/chunk_txt_to_csv.py, src/notebooks/          *)
(*     upload_chunks.py), on strings over a small alphabet;                *)
(*   - split_into_token_chunks, process_file / main (rotating CSV writer)  *)
(*     and generate_chunk_objects_from_file / iter_all_chunk_objects;      *)
(*   - upload_chunks (batched upload with failure capture).                *)
(* Three specifications share the variables: SpecClean, SpecChunk and      *)
(* SpecUpload; each leaves the other parts' variables idle.                *)
(***************************************************************************)
EXTENDS Integers, Sequences, FiniteSets, TLC

VARIABLES
    \* ---- clean_text ----
    cpc,        \* "idle" | "raw" | "once" | "twice"
    variant,    \* "legacy" | "upload": which clean_text is applied
    raw,        \* the input string
    once,       \* clean_text(raw)
    twice       \* clean_text(clean_text(raw))

VARIABLES
    \* ---- chunking: main (chunk_txt_to_csv.py) and iter_all_chunk_objects ----
    kpc,         \* "idle" | "start" | "loop" | "split" | "check" | "done" |
                 \* "materialized" | "raised"
    pipeline,    \* "file": the rotating CSV writer; "upload": the object generator
    cfg,         \* [size, overlap, min]: CHUNK_SIZE_TOKENS, CHUNK_OVERLAP_TOKENS,
                 \* MIN_DOC_TOKENS_SINGLE_CHUNK
    max_bytes,   \* MAX_BYTES
    docs,        \* all_txt_paths: per path, what its cleaned text measures
    di,          \* index of the path the for loop is at
    start,       \* split_into_token_chunks: the range() offset reached
    chunk_index, \* chunk_index of process_file / generate_chunk_objects_from_file
    containers,  \* the CSV files opened so far, in order: [rows, bytes], bytes
                 \* being what f_out.tell() returns for it
    f_open,      \* whether the current f_out is open
    all_objects  \* the objects yielded by iter_all_chunk_objects so far

VARIABLES
    \* ---- upload_chunks, from the return of list(iter_all_chunk_objects()) ----
    upc,            \* "idle" | "begin" | "connect" | "get_collection" | "loop" |
                    \* "sleep" | "exit_scope" | "persist" | "done" | "raised"
    batch_size,     \* BATCH_SIZE
    records,        \* all_objects of upload_chunks
    client,         \* "none" | "open" | "closed"
    uploaded,       \* uploaded
    batch_counter,  \* batch_counter
    sleeps,         \* the time.sleep calls that returned
    buffer,         \* the batch accumulator: objects added and not yet sent
    sent,           \* the batches submitted to the remote endpoint, in order
    batch_failed,   \* batch.failed_objects
    failed_objects, \* failed_objects
    replay_file,    \* failed_objects.jsonl: <<>> while absent, else <<its lines>>
    rejects,        \* the objects the remote endpoint rejects
    fo_shape        \* how the client exposes a failed object's properties

cleanVars == <<cpc, variant, raw, once, twice>>

uploadVars == <<upc, batch_size, records, client, uploaded, batch_counter, sleeps,
                buffer, sent, batch_failed, failed_objects, replay_file, rejects,
                fo_shape>>

chunkVars == <<kpc, pipeline, cfg, max_bytes, docs, di, start, chunk_index,
               containers, f_open, all_objects>>

vars == <<cleanVars, chunkVars, uploadVars>>

\* What no step of the chunking changes.
chunkEnv == <<cleanVars, uploadVars, pipeline, cfg, max_bytes, docs>>

(***************************************************************************)
(*                              clean_text                                 *)
(*                                                                         *)
(* A string is a sequence of symbols.  "P" stands for the four letters of  *)
(* 'page' (any case), "O" for the two letters of 'of', "d" for a digit,    *)
(* "#" for a character outside the upload cleaner's allow-list that is not *)
(* a curly quote, "cq" for a curly quote, "q" for a straight quote, "sp"   *)
(* for a space, "nl" for \n, "cr" for \r and "ff" for the form feed \x0c   *)
(* (whitespace to str.strip() and to \s, but not a space).                 *)
(***************************************************************************)
MaxLen == 5

Alphabet == {"P", "O", "d", "#", "cq", "sp", "nl", "cr", "ff"}

Strings == UNION {[1..k -> Alphabet] : k \in 0..MaxLen}

IsSpace(c) == c \in {"sp", "nl", "cr", "ff"}

\* text.replace(old, new) for a one- or two-symbol old: leftmost,
\* non-overlapping occurrences, scanning left to right.
RECURSIVE Replace(_, _, _)
Replace(s, old, new) ==
    IF Len(s) < Len(old) THEN s
    ELSE IF SubSeq(s, 1, Len(old)) = old
         THEN new \o Replace(SubSeq(s, Len(old) + 1, Len(s)), old, new)
         ELSE <<s[1]>> \o Replace(Tail(s), old, new)

\* text.replace("\r\n", "\n").replace("\r", "\n")
NormalizeNewlines(s) ==
    Replace(Replace(s, <<"cr", "nl">>, <<"nl">>), <<"cr">>, <<"nl">>)

\* text.split("\n"): the pieces between newlines, empty pieces kept.
RECURSIVE Split(_, _)
Split(s, cur) ==
    IF s = <<>> THEN <<cur>>
    ELSE IF s[1] = "nl" THEN <<cur>> \o Split(Tail(s), <<>>)
         ELSE Split(Tail(s), Append(cur, s[1]))

RECURSIVE LStrip(_)
LStrip(s) == IF s # <<>> /\ IsSpace(s[1]) THEN LStrip(Tail(s)) ELSE s

RECURSIVE RStrip(_)
RStrip(s) ==
    IF s # <<>> /\ IsSpace(s[Len(s)]) THEN RStrip(SubSeq(s, 1, Len(s) - 1)) ELSE s

\* str.strip()
Strip(s) == RStrip(LStrip(s))

\* " ".join(line for line in lines if line), the lines stripped first
RECURSIVE JoinLines(_)
JoinLines(lines) ==
    IF lines = <<>> THEN <<>>
    ELSE LET l    == Strip(Head(lines))
             rest == JoinLines(Tail(lines))
         IN  IF l = <<>> THEN rest
             ELSE IF rest = <<>> THEN l
             ELSE l \o <<"sp">> \o rest

StripAndJoin(s) == JoinLines(Split(s, <<>>))

\* while "  " in text: text = text.replace("  ", " ")
RECURSIVE CollapseSpaces(_)
CollapseSpaces(s) ==
    LET t == Replace(s, <<"sp", "sp">>, <<"sp">>)
    IN  IF t = s THEN s ELSE CollapseSpaces(t)

\* src/legacy/chunk_txt_to_csv.py clean_text
legacy_clean_text(text) ==
    Strip(CollapseSpaces(StripAndJoin(NormalizeNewlines(text))))

\* The length of the longest prefix of s made of symbols satisfying the class.
RECURSIVE SpanSpace(_)
SpanSpace(s) == IF s # <<>> /\ IsSpace(s[1]) THEN 1 + SpanSpace(Tail(s)) ELSE 0

RECURSIVE SpanDigit(_)
SpanDigit(s) == IF s # <<>> /\ s[1] = "d" THEN 1 + SpanDigit(Tail(s)) ELSE 0

Drop(s, k) == SubSeq(s, k + 1, Len(s))

\* The length of the match of page\s*\d+\s*of\s*\d+ at the head of s, 0 when
\* it does not match there.  The pieces are over disjoint classes, so the
\* greedy match is the only one.
MarkerLen(s) ==
    IF s = <<>> \/ s[1] # "P" THEN 0
    ELSE LET s1 == Tail(s)
             w1 == SpanSpace(s1)
             s2 == Drop(s1, w1)
             d1 == SpanDigit(s2)
             s3 == Drop(s2, d1)
             w2 == SpanSpace(s3)
             s4 == Drop(s3, w2)
             s5 == IF s4 # <<>> /\ s4[1] = "O" THEN Tail(s4) ELSE <<>>
             w3 == SpanSpace(s5)
             s6 == Drop(s5, w3)
             d2 == SpanDigit(s6)
         IN  IF d1 = 0 \/ s4 = <<>> \/ s4[1] # "O" \/ d2 = 0 THEN 0
             ELSE 1 + w1 + d1 + w2 + 1 + w3 + d2

\* PAGE_MARKER_PATTERN.sub(" ", text): one left-to-right pass.
RECURSIVE RemovePageMarkers(_)
RemovePageMarkers(s) ==
    IF s = <<>> THEN <<>>
    ELSE LET m == MarkerLen(s)
         IN  IF m > 0 THEN <<"sp">> \o RemovePageMarkers(Drop(s, m))
             ELSE <<s[1]>> \o RemovePageMarkers(Tail(s))

\* OCR_JUNK_PATTERN.sub(" ", text): the curly quotes are outside the allow-list.
StripJunk(s) == [i \in 1..Len(s) |-> IF s[i] \in {"#", "cq"} THEN "sp" ELSE s[i]]

\* .replace(curly, straight) for the three curly quotes
NormalizeQuotes(s) == [i \in 1..Len(s) |-> IF s[i] = "cq" THEN "q" ELSE s[i]]

\* re.sub(r"\s+", " ", text)
RECURSIVE CollapseWhitespace(_)
CollapseWhitespace(s) ==
    IF s = <<>> THEN <<>>
    ELSE IF IsSpace(s[1])
         THEN <<"sp">> \o CollapseWhitespace(Drop(s, SpanSpace(s)))
         ELSE <<s[1]>> \o CollapseWhitespace(Tail(s))

\* src/notebooks/upload_chunks.py clean_text
clean_text(text) ==
    Strip(CollapseWhitespace(NormalizeQuotes(StripJunk(RemovePageMarkers(
        StripAndJoin(Replace(NormalizeNewlines(text), <<"ff">>, <<"sp">>)))))))

Clean(v, s) == IF v = "legacy" THEN legacy_clean_text(s) ELSE clean_text(s)

IdleClean ==
    /\ cpc = "idle"
    /\ variant = "legacy"
    /\ raw = <<>>
    /\ once = <<>>
    /\ twice = <<>>

IdleUpload ==
    /\ upc = "idle"
    /\ batch_size = 1
    /\ records = <<>>
    /\ client = "none"
    /\ uploaded = 0
    /\ batch_counter = 0
    /\ sleeps = 0
    /\ buffer = <<>>
    /\ sent = <<>>
    /\ batch_failed = <<>>
    /\ failed_objects = <<>>
    /\ replay_file = <<>>
    /\ rejects = {}
    /\ fo_shape = "properties"

IdleChunk ==
    /\ kpc = "idle"
    /\ pipeline = "file"
    /\ cfg = [size |-> 1, overlap |-> 0, min |-> 1]
    /\ max_bytes = 0
    /\ docs = <<>>
    /\ di = 0
    /\ start = 0
    /\ chunk_index = 0
    /\ containers = <<>>
    /\ f_open = FALSE
    /\ all_objects = <<>>

(***************************************************************************)
(*                    Chunking and the two pipelines                       *)
(*                                                                         *)
(* A document is what its cleaned text measures: tok = len(encode(text)),  *)
(* words = len(text.split()), bytes = the bytes of one CSV row of it.  A   *)
(* document's position in all_txt_paths stands for its path and doc_id.    *)
(* A chunk's text is [via, from, to]: the cleaned text itself (via         *)
(* "clean") or the decode of the token window [from, to) (via "decode").   *)
(***************************************************************************)
CHUNK_SIZE_TOKENS == 350
CHUNK_OVERLAP_TOKENS == 70
MIN_DOC_TOKENS_SINGLE_CHUNK == 220
MIN_WORDS_PER_DOC == 5

\* len("doc_id,chunk_id,source_group,text\r\n"), what writeheader() writes
HeaderBytes == 35

MaxDocs == 2
MaxChunkSize == 4
MaxTokens == 6
MinRowBytes == 11
MaxRowBytes == 40

Min(a, b) == IF a < b THEN a ELSE b

ProgramConfig ==
    [size |-> CHUNK_SIZE_TOKENS, overlap |-> CHUNK_OVERLAP_TOKENS,
     min |-> MIN_DOC_TOKENS_SINGLE_CHUNK]

\* The program's configuration, and small ones: every size up to MaxChunkSize
\* with every overlap up to the size itself (overlap = size is the
\* misconfiguration), the single-chunk threshold at 1 or at the size.
Configs ==
    {ProgramConfig} \cup
    {[size |-> s, overlap |-> o, min |-> m] :
        s \in 1..MaxChunkSize, o \in 0..MaxChunkSize, m \in 1..MaxChunkSize}

Explored(c) ==
    c = ProgramConfig \/ (c.overlap <= c.size /\ c.min \in {1, c.size})

\* step = chunk_size - chunk_overlap
Step(c) == c.size - c.overlap

\* Token counts around every threshold of the configuration.
TokenChoices(c) ==
    IF c = ProgramConfig
    THEN {0, c.min - 1, c.min, Step(c) + 1, c.size + 1, 2 * Step(c) + 1,
          2 * c.size}
    ELSE 0..MaxTokens

\* A text of n tokens has between 1 and n words, none when it is empty.
WordChoices(n) ==
    IF n = 0 THEN {0}
    ELSE {Min(n, MIN_WORDS_PER_DOC - 1), Min(n, MIN_WORDS_PER_DOC)}

\* The rotation is explored under the program's configuration: there the
\* rows' bytes and MAX_BYTES vary.  The word count matters on the upload path.
Rotating(c, p) == c = ProgramConfig /\ p = "file"

DocChoices(c, p) ==
    {d \in [tok : TokenChoices(c), words : 0..MIN_WORDS_PER_DOC,
            bytes : {MinRowBytes, MaxRowBytes}] :
        /\ d.words \in WordChoices(d.tok)
        /\ p = "file" => d.words = Min(d.tok, MIN_WORDS_PER_DOC)
        /\ ~Rotating(c, p) => d.bytes = MinRowBytes}

Corpora(c, p) == UNION {[1..k -> DocChoices(c, p)] : k \in 0..MaxDocs}

MaxBytesChoices ==
    {HeaderBytes, HeaderBytes + MinRowBytes, HeaderBytes + 2 * MaxRowBytes}

\* f"{chunk_index:03d}"
RECURSIVE Digits(_)
Digits(k) == IF k < 10 THEN <<k>> ELSE Append(Digits(k \div 10), k % 10)

Pad3(k) ==
    LET ds == Digits(k)
    IN  IF Len(ds) >= 3 THEN ds ELSE [i \in 1..(3 - Len(ds)) |-> 0] \o ds

\* f"{doc_id}_c{chunk_index:03d}"
ChunkId(doc, k) == <<doc, "_c">> \o Pad3(k)

\* A threshold off by one: n_tokens < MIN_DOC_TOKENS_SINGLE_CHUNK - 1
IsShortOffByOne(n, c) == n < c.min - 1

\* n_tokens < MIN_DOC_TOKENS_SINGLE_CHUNK
IsShort(n, c) == n < c.min

\* tokens[start:end] with end = start + chunk_size
Window(s, c, n) == [via |-> "decode", from |-> s, to |-> Min(s + c.size, n)]

\* The single chunk of a short document: the cleaned text, never decoded.
WholeText(n) == [via |-> "clean", from |-> 0, to |-> n]

Row(doc, k, text) == [doc |-> doc, chunk_id |-> ChunkId(doc, k), text |-> text]

\* A rotation that forgets file_index += 1: the same file is opened again
\* with mode "w" and loses its rows.
ReopenSameOutputFile(cs) ==
    IF cs = <<>> THEN <<[rows |-> <<>>, bytes |-> HeaderBytes]>>
    ELSE [cs EXCEPT ![Len(cs)] = [rows |-> <<>>, bytes |-> HeaderBytes]]

\* open_new_output_file(index): one more file, holding the header
OpenNewOutputFile(cs) == Append(cs, [rows |-> <<>>, bytes |-> HeaderBytes])

\* A strict comparison: f_out.tell() > MAX_BYTES
RotateDueStrict(size, maxb) == size > maxb

\* f_out.tell() >= MAX_BYTES
RotateDue(size, maxb) == size >= maxb

\* writer.writerow(row) on the current file
WriteRow(row) ==
    containers' = [containers EXCEPT
                      ![Len(containers)].rows = Append(@, row),
                      ![Len(containers)].bytes = @ + docs[row.doc].bytes]

InitChunk ==
    /\ IdleClean
    /\ IdleUpload
    /\ kpc = "start"
    /\ pipeline \in {"file", "upload"}
    /\ cfg \in {c \in Configs : Explored(c)}
    /\ max_bytes \in (IF Rotating(cfg, pipeline) THEN MaxBytesChoices
                      ELSE {HeaderBytes + MinRowBytes})
    /\ docs \in Corpora(cfg, pipeline)
    /\ di = 0
    /\ start = 0
    /\ chunk_index = 0
    /\ containers = <<>>
    /\ f_open = FALSE
    /\ all_objects = <<>>

\* ---- src/legacy/chunk_txt_to_csv.py: main ----

\* main, lines 139-144: nothing to do, or the first output file is opened.
MainStart ==
    /\ kpc = "start" /\ pipeline = "file"
    /\ IF docs = <<>>
       THEN /\ kpc' = "done"
            /\ UNCHANGED <<containers, f_open, di>>
       ELSE /\ containers' = OpenNewOutputFile(containers)
            /\ f_open' = TRUE
            /\ di' = 1
            /\ kpc' = "loop"
    /\ UNCHANGED <<chunkEnv, start, chunk_index, all_objects>>

\* process_file up to its first writerow or its call of split_into_token_chunks.
ProcessFile ==
    /\ kpc = "loop" /\ pipeline = "file" /\ di <= Len(docs)
    /\ LET n == docs[di].tok
       IN  IF n = 0
           THEN /\ kpc' = "check"
                /\ UNCHANGED <<containers, start, chunk_index>>
           ELSE IF IsShort(n, cfg)
           THEN /\ WriteRow(Row(di, 1, WholeText(n)))
                /\ kpc' = "check"
                /\ UNCHANGED <<start, chunk_index>>
           ELSE /\ kpc' = "split"
                /\ start' = 0
                /\ chunk_index' = 1
                /\ UNCHANGED <<containers>>
    /\ UNCHANGED <<chunkEnv, di, f_open, all_objects>>

\* split_into_token_chunks raises on step <= 0; main's finally closes f_out.
FileSplitRaise ==
    /\ kpc = "split" /\ pipeline = "file"
    /\ Step(cfg) <= 0
    /\ kpc' = "raised"
    /\ f_open' = FALSE
    /\ UNCHANGED <<chunkEnv, di, start, chunk_index,
                   containers, all_objects>>

\* One turn of the for loop of process_file over split_into_token_chunks.
FileWriteChunk ==
    /\ kpc = "split" /\ pipeline = "file"
    /\ Step(cfg) > 0
    /\ start < docs[di].tok
    /\ WriteRow(Row(di, chunk_index, Window(start, cfg, docs[di].tok)))
    /\ chunk_index' = chunk_index + 1
    /\ start' = start + Step(cfg)
    /\ UNCHANGED <<chunkEnv, kpc, di, f_open, all_objects>>

\* range(0, len(tokens), step) is exhausted: process_file returns.
FileSplitEnd ==
    /\ kpc = "split" /\ pipeline = "file"
    /\ Step(cfg) > 0
    /\ start >= docs[di].tok
    /\ kpc' = "check"
    /\ UNCHANGED <<chunkEnv, di, start, chunk_index,
                   containers, f_open, all_objects>>

\* main, lines 151-155: the size check after a file's rows, and the rotation.
Rotate ==
    /\ kpc = "check" /\ pipeline = "file"
    /\ IF RotateDue(containers[Len(containers)].bytes, max_bytes)
       THEN containers' = OpenNewOutputFile(containers)
       ELSE UNCHANGED containers
    /\ di' = di + 1
    /\ kpc' = "loop"
    /\ UNCHANGED <<chunkEnv, start, chunk_index, f_open,
                   all_objects>>

\* main, lines 157-160: the loop is over, f_out is closed.
MainEnd ==
    /\ kpc = "loop" /\ pipeline = "file" /\ di > Len(docs)
    /\ f_open' = FALSE
    /\ kpc' = "done"
    /\ UNCHANGED <<chunkEnv, di, start, chunk_index,
                   containers, all_objects>>

\* ---- src/notebooks/upload_chunks.py: list(iter_all_chunk_objects()) ----

IterStart ==
    /\ kpc = "start" /\ pipeline = "upload"
    /\ IF docs = <<>>
       THEN kpc' = "materialized" /\ UNCHANGED di
       ELSE kpc' = "loop" /\ di' = 1
    /\ UNCHANGED <<chunkEnv, start, chunk_index,
                   containers, f_open, all_objects>>

\* generate_chunk_objects_from_file up to its first yield or its call of
\* split_into_token_chunks.
GenerateChunkObjects ==
    /\ kpc = "loop" /\ pipeline = "upload" /\ di <= Len(docs)
    /\ LET n == docs[di].tok
       IN  IF n = 0 \/ docs[di].words < MIN_WORDS_PER_DOC
           THEN /\ di' = di + 1
                /\ UNCHANGED <<kpc, all_objects, start, chunk_index>>
           ELSE IF IsShort(n, cfg)
           THEN /\ all_objects' = Append(all_objects, Row(di, 1, WholeText(n)))
                /\ di' = di + 1
                /\ UNCHANGED <<kpc, start, chunk_index>>
           ELSE /\ kpc' = "split"
                /\ start' = 0
                /\ chunk_index' = 1
                /\ UNCHANGED <<di, all_objects>>
    /\ UNCHANGED <<chunkEnv, containers, f_open>>

\* split_into_token_chunks raises on step <= 0: list() never returns.
GenSplitRaise ==
    /\ kpc = "split" /\ pipeline = "upload"
    /\ Step(cfg) <= 0
    /\ kpc' = "raised"
    /\ UNCHANGED <<chunkEnv, di, start, chunk_index,
                   containers, f_open, all_objects>>

GenYieldChunk ==
    /\ kpc = "split" /\ pipeline = "upload"
    /\ Step(cfg) > 0
    /\ start < docs[di].tok
    /\ all_objects' =
           Append(all_objects, Row(di, chunk_index, Window(start, cfg, docs[di].tok)))
    /\ chunk_index' = chunk_index + 1
    /\ start' = start + Step(cfg)
    /\ UNCHANGED <<chunkEnv, kpc, di, containers, f_open>>

GenSplitEnd ==
    /\ kpc = "split" /\ pipeline = "upload"
    /\ Step(cfg) > 0
    /\ start >= docs[di].tok
    /\ kpc' = "loop"
    /\ di' = di + 1
    /\ UNCHANGED <<chunkEnv, start, chunk_index,
                   containers, f_open, all_objects>>

IterEnd ==
    /\ kpc = "loop" /\ pipeline = "upload" /\ di > Len(docs)
    /\ kpc' = "materialized"
    /\ UNCHANGED <<chunkEnv, di, start, chunk_index,
                   containers, f_open, all_objects>>

NextChunk ==
    \/ MainStart \/ ProcessFile \/ FileSplitRaise \/ FileWriteChunk
    \/ FileSplitEnd \/ Rotate \/ MainEnd
    \/ IterStart \/ GenerateChunkObjects \/ GenSplitRaise \/ GenYieldChunk
    \/ GenSplitEnd \/ IterEnd

SpecChunk == InitChunk /\ [][NextChunk]_vars

InitClean ==
    /\ IdleChunk
    /\ IdleUpload
    /\ cpc = "raw"
    /\ variant \in {"legacy", "upload"}
    /\ raw \in Strings
    /\ once = <<>>
    /\ twice = <<>>

CleanOnce ==
    /\ cpc = "raw"
    /\ once' = Clean(variant, raw)
    /\ cpc' = "once"
    /\ UNCHANGED <<variant, raw, twice, chunkVars, uploadVars>>

CleanTwice ==
    /\ cpc = "once"
    /\ twice' = Clean(variant, once)
    /\ cpc' = "twice"
    /\ UNCHANGED <<variant, raw, once, chunkVars, uploadVars>>

NextClean == CleanOnce \/ CleanTwice

SpecClean == InitClean /\ [][NextClean]_vars

(***************************************************************************)
(*                            upload_chunks                                *)
(*                                                                         *)
(* The run starts where list(iter_all_chunk_objects()) has returned.  A    *)
(* record is the property dict of one chunk; the i-th record is the single *)
(* chunk of a short i-th document.  The batch mechanism submits a batch    *)
(* when the accumulator holds batch_size objects and, when its scope ends, *)
(* what is left; the remote endpoint rejects the objects in rejects.       *)
(***************************************************************************)
BATCH_SIZE == 100

MaxBatch == 3
MaxObjects == 5
LargeRun == 250

Records(n) == [i \in 1..n |-> Row(i, 1, WholeText(1))]

\* Small runs with every rejection pattern, and runs at the program's
\* BATCH_SIZE where the first and the last object may be rejected.
UploadRuns ==
    [b : 1..MaxBatch, n : 0..MaxObjects]
    \cup {[b |-> BATCH_SIZE, n |-> n] :
             n \in {BATCH_SIZE - 1, BATCH_SIZE, LargeRun}}

RejectChoices(r) ==
    IF r.n <= MaxObjects THEN SUBSET (1..r.n) ELSE SUBSET {1, r.n}

\* A failed object as the client reports it.
FailedObject(obj) == [shape |-> fo_shape, props |-> obj]

\* Lines 242-247: fo.properties, else fo.object.get("properties"), else nothing.
FailedProps(fo) ==
    IF fo.shape \in {"properties", "object"} THEN <<fo.props>> ELSE <<>>

RECURSIVE Recover(_)
Recover(fos) ==
    IF fos = <<>> THEN <<>> ELSE FailedProps(Head(fos)) \o Recover(Tail(fos))

\* The failed objects of one submitted batch.
RECURSIVE Rejected(_)
Rejected(batch) ==
    IF batch = <<>> THEN <<>>
    ELSE (IF Head(batch).doc \in rejects THEN <<FailedObject(Head(batch))>> ELSE <<>>)
         \o Rejected(Tail(batch))

\* A trigger one record early: (uploaded + 1) % BATCH_SIZE == 0
SleepDueOffByOne(n, b) == (n + 1) % b = 0

\* uploaded % BATCH_SIZE == 0
SleepDue(n, b) == n % b = 0

\* The batch scope ends (normally or by an exception): what is left is sent.
Flush ==
    /\ buffer' = <<>>
    /\ sent' = IF buffer = <<>> THEN sent ELSE Append(sent, buffer)
    /\ batch_failed' = batch_failed \o Rejected(buffer)

\* An exception inside the with block: the scope ends, finally closes the client.
RaiseInScope ==
    /\ Flush
    /\ client' = "closed"
    /\ upc' = "raised"

InitUpload ==
    /\ IdleClean
    /\ IdleChunk
    /\ upc = "begin"
    /\ \E r \in UploadRuns :
          /\ batch_size = r.b
          /\ records = Records(r.n)
          /\ rejects \in RejectChoices(r)
    /\ fo_shape \in {"properties", "object"}
    /\ client = "none"
    /\ uploaded = 0
    /\ batch_counter = 0
    /\ sleeps = 0
    /\ buffer = <<>>
    /\ sent = <<>>
    /\ batch_failed = <<>>
    /\ failed_objects = <<>>
    /\ replay_file = <<>>

uploadEnv == <<cleanVars, chunkVars, batch_size, records, rejects, fo_shape>>

\* Lines 206-212: nothing to upload, no connection is opened.
UploadStart ==
    /\ upc = "begin"
    /\ upc' = IF Len(records) = 0 THEN "done" ELSE "connect"
    /\ UNCHANGED <<uploadEnv, client, uploaded, batch_counter, sleeps, buffer, sent,
                   batch_failed, failed_objects, replay_file>>

\* Line 214: connect_weaviate returns a client.
Connect ==
    /\ upc = "connect"
    /\ client' = "open"
    /\ upc' = "get_collection"
    /\ UNCHANGED <<uploadEnv, uploaded, batch_counter, sleeps, buffer, sent,
                   batch_failed, failed_objects, replay_file>>

\* Line 214: connect_weaviate raises (missing parameters, no connection).
ConnectRaises ==
    /\ upc = "connect"
    /\ upc' = "raised"
    /\ UNCHANGED <<uploadEnv, client, uploaded, batch_counter, sleeps, buffer, sent,
                   batch_failed, failed_objects, replay_file>>

\* Line 215: the collection is obtained; then the try and the batch scope open.
GetCollection ==
    /\ upc = "get_collection"
    /\ upc' = "loop"
    /\ UNCHANGED <<uploadEnv, client, uploaded, batch_counter, sleeps, buffer, sent,
                   batch_failed, failed_objects, replay_file>>

\* Line 215 raises: it stands before the try, nothing closes the client.
GetCollectionRaises ==
    /\ upc = "get_collection"
    /\ upc' = "raised"
    /\ UNCHANGED <<uploadEnv, client, uploaded, batch_counter, sleeps, buffer, sent,
                   batch_failed, failed_objects, replay_file>>

\* Lines 224-235: one turn of the for loop, up to the call of time.sleep.
AddObject ==
    /\ upc = "loop"
    /\ uploaded < Len(records)
    /\ LET obj  == records[uploaded + 1]
           buf  == Append(buffer, obj)
           full == Len(buf) >= batch_size
       IN  /\ buffer' = IF full THEN <<>> ELSE buf
           /\ sent' = IF full THEN Append(sent, buf) ELSE sent
           /\ batch_failed' = IF full THEN batch_failed \o Rejected(buf)
                              ELSE batch_failed
    /\ uploaded' = uploaded + 1
    /\ IF SleepDue(uploaded + 1, batch_size)
       THEN batch_counter' = batch_counter + 1 /\ upc' = "sleep"
       ELSE UNCHANGED <<batch_counter, upc>>
    /\ UNCHANGED <<uploadEnv, client, sleeps, failed_objects, replay_file>>

\* Line 225: batch.add_object raises.
AddObjectRaises ==
    /\ upc = "loop"
    /\ uploaded < Len(records)
    /\ RaiseInScope
    /\ UNCHANGED <<uploadEnv, uploaded, batch_counter, sleeps, failed_objects,
                   replay_file>>

\* Line 235: time.sleep returns.
Sleep ==
    /\ upc = "sleep"
    /\ sleeps' = sleeps + 1
    /\ upc' = "loop"
    /\ UNCHANGED <<uploadEnv, client, uploaded, batch_counter, buffer, sent,
                   batch_failed, failed_objects, replay_file>>

\* Line 235: time.sleep is interrupted.
SleepRaises ==
    /\ upc = "sleep"
    /\ RaiseInScope
    /\ UNCHANGED <<uploadEnv, uploaded, batch_counter, sleeps, failed_objects,
                   replay_file>>

\* Lines 238-247: after the for loop and still inside the batch scope,
\* batch.failed_objects is read and the properties are recovered.
ReadFailed ==
    /\ upc = "loop"
    /\ uploaded = Len(records)
    /\ failed_objects' = failed_objects \o Recover(batch_failed)
    /\ upc' = "exit_scope"
    /\ UNCHANGED <<uploadEnv, client, uploaded, batch_counter, sleeps, buffer, sent,
                   batch_failed, replay_file>>

\* Lines 238-247 raise while the failed objects are read.
ReadFailedRaises ==
    /\ upc = "loop"
    /\ uploaded = Len(records)
    /\ RaiseInScope
    /\ UNCHANGED <<uploadEnv, uploaded, batch_counter, sleeps, failed_objects,
                   replay_file>>

\* Lines 223 and 249-250: the batch scope ends, then finally closes the client.
ExitScope ==
    /\ upc = "exit_scope"
    /\ Flush
    /\ client' = "closed"
    /\ upc' = "persist"
    /\ UNCHANGED <<uploadEnv, uploaded, batch_counter, sleeps, failed_objects,
                   replay_file>>

\* Lines 255-265: the failed objects are written, one line each, if there are any.
Persist ==
    /\ upc = "persist"
    /\ replay_file' = IF failed_objects # <<>> THEN <<failed_objects>> ELSE <<>>
    /\ upc' = "done"
    /\ UNCHANGED <<uploadEnv, client, uploaded, batch_counter, sleeps, buffer, sent,
                   batch_failed, failed_objects>>

NextUpload ==
    \/ UploadStart \/ Connect \/ ConnectRaises \/ GetCollection
    \/ GetCollectionRaises \/ AddObject \/ AddObjectRaises \/ Sleep \/ SleepRaises
    \/ ReadFailed \/ ReadFailedRaises \/ ExitScope \/ Persist

SpecUpload == InitUpload /\ [][NextUpload]_vars

(***************************************************************************)
(*                     Properties of the chunking                          *)
(***************************************************************************)
RECURSIVE Flatten(_)
Flatten(cs) == IF cs = <<>> THEN <<>> ELSE Head(cs).rows \o Flatten(Tail(cs))

\* Every chunk emitted so far, in emission order.
Emitted == IF pipeline = "file" THEN Flatten(containers) ELSE all_objects

IsDoc(r, i) == r.doc = i

ChunksOf(i) == SelectSeq(Emitted, LAMBDA r : IsDoc(r, i))

\* The documents whose processing is over.
Processed == {i \in 1..Len(docs) : i < di}

\* Documents the pipeline does not skip: a non-empty cleaned text and, on the
\* upload path, at least MIN_WORDS_PER_DOC words.
Kept(i) ==
    /\ docs[i].tok > 0
    /\ pipeline = "upload" => docs[i].words >= MIN_WORDS_PER_DOC

CeilDiv(a, b) == (a + b - 1) \div b

\* The chunk count the specification states.
StatedCount(n, c) ==
    IF n > c.size THEN CeilDiv(n - c.size, Step(c)) + 1 ELSE 1

\* The chunk count of range(0, n, step).
RangeCount(n, c) == CeilDiv(n, Step(c))

\* C1: a document of n >= MIN_DOC_TOKENS_SINGLE_CHUNK tokens, with step > 0,
\* yields ceil((n - CHUNK_SIZE_TOKENS) / step) + 1 chunks when
\* n > CHUNK_SIZE_TOKENS, and 1 chunk otherwise.
C1_StatedChunkCount ==
    \A i \in Processed :
        (Step(cfg) > 0 /\ docs[i].tok >= cfg.min /\ Kept(i))
            => Len(ChunksOf(i)) = StatedCount(docs[i].tok, cfg)

\* What the code does instead: one chunk per offset of range(0, n, step).
ChunkCountIsRangeCount ==
    \A i \in Processed :
        (Step(cfg) > 0 /\ docs[i].tok >= cfg.min /\ Kept(i))
            => Len(ChunksOf(i)) = RangeCount(docs[i].tok, cfg)

\* C4: with CHUNK_OVERLAP_TOKENS >= CHUNK_SIZE_TOKENS the run ends in the
\* fatal error whatever the corpus, and no chunk is written to a container
\* or produced for upload before it.
C4_AbortsBeforeProcessing ==
    (cfg.overlap >= cfg.size /\ docs # <<>>) =>
        /\ kpc \notin {"done", "materialized"}
        /\ kpc = "raised" => Emitted = <<>>

\* The windows of a document that went through split_into_token_chunks.
Windows(i) == SelectSeq(ChunksOf(i), LAMBDA r : r.text.via = "decode")

\* C7: for 0 <= chunk_overlap < chunk_size and n >= 1 tokens, every window
\* spans at most chunk_size tokens and two consecutive windows share exactly
\* chunk_overlap tokens, except possibly when the second is the last window.
C7_WindowsOverlapExactly ==
    \A i \in Processed :
        cfg.overlap < cfg.size =>
            LET w == Windows(i)
            IN  /\ \A k \in 1..Len(w) : w[k].text.to - w[k].text.from <= cfg.size
                /\ \A k \in 1..(Len(w) - 2) :
                       w[k].text.to - w[k + 1].text.from = cfg.overlap

\* Under the program's configuration C7 does hold.
WindowsOverlapInProgramConfig == cfg = ProgramConfig => C7_WindowsOverlapExactly

\* The single chunk of a short document: id {doc_id}_c001, the cleaned text.
IsSingleWholeChunk(i) ==
    LET c == ChunksOf(i)
    IN  /\ Len(c) = 1
        /\ c[1].chunk_id = <<i, "_c", 0, 0, 1>>
        /\ c[1].text.via = "clean"
        /\ c[1].text.from = 0 /\ c[1].text.to = docs[i].tok

\* C8 as stated: every document with n < MIN_DOC_TOKENS_SINGLE_CHUNK yields
\* exactly one chunk, {doc_id}_c001, holding the cleaned text undecoded.
C8_ShortDocSingleChunk ==
    \A i \in Processed : docs[i].tok < cfg.min => IsSingleWholeChunk(i)

\* C8 amended: the same for every such document that is not skipped (its
\* cleaned text is not empty and, on the upload path, it has at least
\* MIN_WORDS_PER_DOC words); a skipped document yields no chunk.
C8_KeptShortDocSingleChunk ==
    \A i \in Processed :
        docs[i].tok < cfg.min =>
            IF Kept(i) THEN IsSingleWholeChunk(i) ELSE ChunksOf(i) = <<>>

\* C8's case: on the upload path under the program's configuration, a short
\* document that is kept and one that is skipped have both been processed.
C8_Witness ==
    /\ kpc = "materialized" /\ pipeline = "upload" /\ cfg = ProgramConfig
    /\ \E i, j \in Processed :
          /\ docs[i].tok < cfg.min /\ Kept(i) /\ Len(ChunksOf(i)) = 1
          /\ docs[j].tok < cfg.min /\ ~Kept(j)

\* The ids of the chunks every document must yield, in document order and
\* then by ordinal.
RECURSIVE ExpectedIds(_)
ExpectedIds(i) ==
    IF i > Len(docs) THEN <<>>
    ELSE LET n == docs[i].tok
             k == IF n = 0 THEN 0 ELSE IF n < cfg.min THEN 1 ELSE RangeCount(n, cfg)
         IN  [j \in 1..k |-> <<i, ChunkId(i, j)>>] \o ExpectedIds(i + 1)

WrittenIds == [j \in 1..Len(Emitted) |-> <<Emitted[j].doc, Emitted[j].chunk_id>>]

IsPrefix(a, b) == Len(a) <= Len(b) /\ a = SubSeq(b, 1, Len(a))

DocsIn(c) == {c.rows[j].doc : j \in 1..Len(c.rows)}

\* C5: the rotating writer writes every chunk of every document exactly once,
\* in document order and then ordinal order, and all the chunks of a document
\* to the same container.
C5_EveryChunkOnceInOrder ==
    (pipeline = "file" /\ Step(cfg) > 0) =>
        /\ IsPrefix(WrittenIds, ExpectedIds(1))
        /\ kpc = "done" => WrittenIds = ExpectedIds(1)
        /\ \A a, b \in 1..Len(containers) :
               a # b => DocsIn(containers[a]) \cap DocsIn(containers[b]) = {}

\* C5's case: the run is over, a rotation followed a document of several
\* chunks, and a later document was written to the next container.
C5_Witness ==
    /\ kpc = "done" /\ pipeline = "file" /\ Step(cfg) > 0
    /\ Len(containers) >= 2
    /\ Len(containers[1].rows) >= 2
    /\ containers[2].rows # <<>>

RECURSIVE SumBytes(_)
SumBytes(rows) ==
    IF rows = <<>> THEN 0 ELSE docs[Head(rows).doc].bytes + SumBytes(Tail(rows))

\* The bytes of the rows of the last document written to container c.
FinalDocBytes(c) ==
    LET last == c.rows[Len(c.rows)].doc
    IN  SumBytes(SelectSeq(c.rows, LAMBDA r : IsDoc(r, last)))

\* The containers a rotation closed: all but the current one.
Rotated == 1..(Len(containers) - 1)

\* C9: a container closed by a rotation was below MAX_BYTES right before its
\* final document's rows were written, so it exceeds MAX_BYTES by at most
\* the bytes of one document's rows.  (MAX_BYTES above the header's bytes,
\* as the program's 9 MiB is.)
C9_RotatedWithinOneDoc ==
    (pipeline = "file" /\ max_bytes > HeaderBytes) =>
        \A a \in Rotated :
            LET c == containers[a]
            IN  /\ c.rows # <<>>
                /\ c.bytes >= max_bytes
                /\ c.bytes - FinalDocBytes(c) < max_bytes
                /\ c.bytes - max_bytes <= FinalDocBytes(c)

\* C9's case: a rotation closed a container holding the rows of two documents.
C9_Witness ==
    /\ pipeline = "file" /\ max_bytes > HeaderBytes
    /\ Len(containers) >= 2
    /\ Cardinality(DocsIn(containers[1])) = 2

(***************************************************************************)
(*                     Properties of upload_chunks                         *)
(***************************************************************************)
RECURSIVE Concat(_)
Concat(ss) == IF ss = <<>> THEN <<>> ELSE Head(ss) \o Concat(Tail(ss))

Range(f) == {f[x] : x \in DOMAIN f}

\* The lines of failed_objects.jsonl, none while the file is absent.
ReplayLines == IF replay_file = <<>> THEN {} ELSE Range(replay_file[1])

\* C2: in a run over N >= 1 records, every object the batch mechanism
\* reports as failed, in whichever batch, has its properties on a line of
\* failed_objects.jsonl.
C2_EveryFailedObjectPersisted ==
    (upc = "done" /\ Len(records) >= 1) =>
        \A k \in 1..Len(batch_failed) : batch_failed[k].props \in ReplayLines

\* What the code does: the objects rejected in the batches sent before the
\* for loop ended are persisted; those of the final partial batch are not.
FullBatchFailuresPersisted ==
    (upc = "done" /\ Len(records) >= 1) =>
        ReplayLines =
            {r \in Range(records) :
                /\ r.doc \in rejects
                /\ r.doc <= batch_size * (Len(records) \div batch_size)}

\* C3: once connect_weaviate has returned a client, every exit of the run,
\* normal or by an exception, leaves the client closed.
C3_ClientClosedOnEveryExit ==
    (upc \in {"done", "raised"} /\ client # "none") => client = "closed"

BatchSizes == [k \in 1..Len(sent) |-> Len(sent[k])]

\* C6: the records enter the batch accumulator in their original order, and
\* the delay is triggered exactly when the count added reaches a multiple of
\* BATCH_SIZE, whatever is rejected: floor(N / BATCH_SIZE) delays in a run
\* that completes, over batches of BATCH_SIZE and a final remainder.
C6_DelayAtEveryMultiple ==
    /\ Concat(sent) \o buffer = SubSeq(records, 1, uploaded)
    /\ upc \in {"loop", "exit_scope", "persist", "done"} =>
           /\ sleeps = uploaded \div batch_size
           /\ batch_counter = sleeps
    /\ upc = "sleep" =>
           /\ uploaded % batch_size = 0
           /\ batch_counter = uploaded \div batch_size
           /\ sleeps = batch_counter - 1
    /\ (upc = "done" /\ Len(records) >= 1) =>
           /\ uploaded = Len(records)
           /\ sleeps = Len(records) \div batch_size
           /\ Len(sent) = CeilDiv(Len(records), batch_size)
           /\ \A k \in 1..(Len(sent) - 1) : Len(sent[k]) = batch_size
           /\ Len(sent[Len(sent)]) = Len(records) - batch_size * (Len(sent) - 1)

\* C6's case: the run of 250 records at BATCH_SIZE 100 completes with a
\* rejection: batches of 100, 100 and 50, two delays.
C6_Witness ==
    /\ upc = "done"
    /\ batch_size = 100 /\ Len(records) = 250
    /\ rejects # {}
    /\ BatchSizes = <<100, 100, 50>>
    /\ sleeps = 2

(***************************************************************************)
(*                      Properties of clean_text                           *)
(***************************************************************************)
\* C10: clean_text is idempotent in both variants: clean(clean(x)) = clean(x).
C10_Idempotent == cpc = "twice" => twice = once

\* The legacy cleaner alone is idempotent.
LegacyIdempotent == (cpc = "twice" /\ variant = "legacy") => twice = once

\* Both cleaners never return a newline or a double space.
CleanShape ==
    cpc = "twice" =>
        /\ \A i \in 1..Len(once) : once[i] \notin {"nl", "cr"}
        /\ \A i \in 1..(Len(once) - 1) : ~(once[i] = "sp" /\ once[i + 1] = "sp")

=============================================================================
